---- MODULE Spec2Model ----
(***************************************************************************)
(* A model of simple_fhe.py: the SimpleFHE engine (key generation from the *)
(* process-wide seeded random stream, encrypt, decrypt, add, multiply) and *)
(* a caller that constructs engines, calls the operations and keeps the    *)
(* ciphertexts they return.                                                *)
(*                                                                         *)
(* Every call is recorded in `last`: the operation, the engine it was      *)
(* called on, its arguments, how it ended ("ok" or the exception raised)   *)
(* and the value it returned (ret is <<>> when nothing was returned and    *)
(* <<v>> when v was returned).                                             *)
(***************************************************************************)
EXTENDS Integers, Sequences, FiniteSets, TLC

VARIABLES
    rng,        \* state of the process-wide `random` module: [seed, pos]
    engines,    \* the SimpleFHE instances constructed so far, in order
    pool,       \* ciphertexts the caller holds: [eng, ct], eng indexes engines
    last        \* the last call made and its outcome

vars == <<rng, engines, pool, last>>

(***************************************************************************)
(* Bounds of the model.                                                    *)
(***************************************************************************)
MaxKeySize == 2     \* key_size ranges over 1..MaxKeySize
MaxEngines == 3     \* engines constructed in one run
MaxPool == 3        \* ciphertexts the caller keeps in one run
MaxLen == 3         \* length of the lists a caller passes in directly

KeySizes == 1..MaxKeySize
Seeds == {0, 7, 42}
Messages == -1..3
ArbVals == {-3, 2}

(***************************************************************************)
(* The random module.  Stream(seed) lists the first 32 values returned by  *)
(* random.randint(0, 1) after random.seed(seed) (CPython's Mersenne        *)
(* Twister); a state of the stream is the seed last set and the number of  *)
(* values drawn since.                                                     *)
(***************************************************************************)
Stream(seed) ==
    CASE seed = 0  -> <<1,1,0,1,1,1,1,1, 1,0,0,1,0,0,1,0,
                        1,0,0,1,1,0,1,1, 1,0,1,1,1,0,0,0>>
      [] seed = 7  -> <<1,0,1,0,0,0,1,0, 0,0,0,1,1,0,0,0,
                        1,0,0,0,0,1,0,0, 0,0,1,1,0,0,1,0>>
      [] seed = 42 -> <<0,0,1,0,0,0,0,0, 1,0,0,0,0,0,0,0,
                        1,0,1,1,0,0,1,1, 1,0,0,1,0,0,1,0>>

\* random.seed(seed) forgetting to restart the stream
RandomSeed_NoReseed(seed) == rng

\* random.seed(seed)
RandomSeed(seed) == [seed |-> seed, pos |-> 0]

\* the list [random.randint(0, 1) for _ in range(n)] drawn in state st
RandInts(st, n) == [i \in 1..n |-> Stream(st.seed)[st.pos + i]]

\* the state of the stream after n draws
Advance(st, n) == [st EXCEPT !.pos = @ + n]

\* _generate_secret_key: key_size draws
generate_secret_key(st, key_size) == RandInts(st, key_size)

\* _generate_public_key: key_size further draws, not derived from the secret key
generate_public_key(st, key_size) == RandInts(st, key_size)

\* SimpleFHE.__init__: the engine built, and the stream state it leaves
SimpleFHE(key_size, seed) ==
    LET q  == 8
        s0 == RandomSeed(seed)
        sk == generate_secret_key(s0, key_size)
        s1 == Advance(s0, key_size)
        pk == generate_public_key(s1, key_size)
        s2 == Advance(s1, key_size)
    IN  [engine |-> [key_size |-> key_size, q |-> q, scale |-> q \div 2,
                     seed |-> seed, secret_key |-> sk, public_key |-> pk],
         rng |-> s2]

(***************************************************************************)
(* Python list helpers.                                                    *)
(***************************************************************************)
Min(a, b) == IF a <= b THEN a ELSE b

\* c[:-1] (the empty list for an empty c)
Front(c) == IF Len(c) = 0 THEN <<>> ELSE SubSeq(c, 1, Len(c) - 1)

\* c[-1], taken only of a non-empty c
Back(c) == c[Len(c)]

RECURSIVE SumTo(_, _)
SumTo(f, n) == IF n = 0 THEN 0 ELSE SumTo(f, n - 1) + f[n]

\* sum(a * b for a, b in zip(xs, ys)): zip stops at the shorter list
Dot(xs, ys) ==
    LET n == Min(Len(xs), Len(ys))
    IN  SumTo([i \in 1..n |-> xs[i] * ys[i]], n)

Return(v) == [status |-> "ok", ret |-> <<v>>]
Raise(exc) == [status |-> exc, ret |-> <<>>]

(***************************************************************************)
(* The operations, as functions of the engine E and the arguments.         *)
(***************************************************************************)
noise == 0

\* encrypt without the check of the message
encrypt_NoCheck(E, message) ==
    Return([i \in 1..E.key_size |-> (E.public_key[i] + noise) % E.q]
             \o <<(message * E.scale + noise) % E.q>>)

\* SimpleFHE.encrypt
encrypt(E, message) ==
    IF message \notin {0, 1}
    THEN Raise("ValueError")
    ELSE Return([i \in 1..E.key_size |-> (E.public_key[i] + noise) % E.q]
                  \o <<(message * E.scale + noise) % E.q>>)

\* remainder that takes the sign of the dividend
TruncRem(a, q) == IF a >= 0 THEN a % q ELSE -((-a) % q)

\* decrypt reducing with a truncating remainder
decrypt_TruncRem(E, ciphertext) ==
    IF Len(ciphertext) = 0
    THEN Raise("IndexError")
    ELSE LET message_part == Back(ciphertext)
             dot_product == Dot(Front(ciphertext), E.secret_key)
             r == TruncRem(message_part - dot_product, E.q)
         IN  Return(IF r >= 0 THEN r \div E.scale ELSE -((-r) \div E.scale))

\* SimpleFHE.decrypt
decrypt(E, ciphertext) ==
    IF Len(ciphertext) = 0
    THEN Raise("IndexError")
    ELSE LET message_part == Back(ciphertext)
             dot_product == Dot(Front(ciphertext), E.secret_key)
         IN  Return(((message_part - dot_product) % E.q) \div E.scale)

\* the element-wise loop over zip(c1[:-1], c2[:-1])
ZipMasks(c1, c2) == Min(Len(Front(c1)), Len(Front(c2)))

\* add without the length check
add_NoLengthCheck(E, ciphertext1, ciphertext2) ==
    IF Len(ciphertext1) = 0 \/ Len(ciphertext2) = 0
    THEN Raise("IndexError")
    ELSE Return([i \in 1..ZipMasks(ciphertext1, ciphertext2) |->
                    (ciphertext1[i] + ciphertext2[i]) % E.q]
                \o <<(Back(ciphertext1) + Back(ciphertext2)) % E.q>>)

\* add looping over the whole lists instead of c[:-1]
add_WholeZip(E, ciphertext1, ciphertext2) ==
    IF Len(ciphertext1) # Len(ciphertext2)
    THEN Raise("ValueError")
    ELSE IF Len(ciphertext1) = 0
    THEN Raise("IndexError")
    ELSE Return([i \in 1..Len(ciphertext1) |->
                    (ciphertext1[i] + ciphertext2[i]) % E.q]
                \o <<(Back(ciphertext1) + Back(ciphertext2)) % E.q>>)

\* add without the reduction of the message entry
add_NoMod(E, ciphertext1, ciphertext2) ==
    IF Len(ciphertext1) # Len(ciphertext2)
    THEN Raise("ValueError")
    ELSE IF Len(ciphertext1) = 0
    THEN Raise("IndexError")
    ELSE Return([i \in 1..ZipMasks(ciphertext1, ciphertext2) |->
                    (ciphertext1[i] + ciphertext2[i]) % E.q]
                \o <<Back(ciphertext1) + Back(ciphertext2)>>)

\* SimpleFHE.add
add(E, ciphertext1, ciphertext2) ==
    IF Len(ciphertext1) # Len(ciphertext2)
    THEN Raise("ValueError")
    ELSE IF Len(ciphertext1) = 0
    THEN Raise("IndexError")        \* ciphertext1[-1] of an empty list
    ELSE Return([i \in 1..ZipMasks(ciphertext1, ciphertext2) |->
                    (ciphertext1[i] + ciphertext2[i]) % E.q]
                \o <<(Back(ciphertext1) + Back(ciphertext2)) % E.q>>)

\* SimpleFHE.multiply
multiply(E, ciphertext1, ciphertext2) ==
    IF Len(ciphertext1) # Len(ciphertext2)
    THEN Raise("ValueError")
    ELSE IF Len(ciphertext1) = 0
    THEN Raise("IndexError")        \* ciphertext1[-1] of an empty list
    ELSE LET b1 == Back(ciphertext1) \div E.scale
             b2 == Back(ciphertext2) \div E.scale
         IN  Return([i \in 1..ZipMasks(ciphertext1, ciphertext2) |->
                        (ciphertext1[i] * ciphertext2[i]) % E.q]
                    \o <<(b1 * b2 * E.scale) % E.q>>)

(***************************************************************************)
(* Inputs of the caller.                                                   *)
(***************************************************************************)
RECURSIVE SeqsUpTo(_, _)
SeqsUpTo(S, n) ==
    IF n = 0 THEN {<<>>}
    ELSE LET shorter == SeqsUpTo(S, n - 1)
         IN  shorter \cup {Append(s, x) : s \in {t \in shorter : Len(t) = n - 1}, x \in S}

\* lists a caller can build by hand and pass in
ArbCts == SeqsUpTo(ArbVals, MaxLen)

\* ciphertexts the caller holds that engine e returned
Held(e) == {pool[i].ct : i \in {j \in DOMAIN pool : pool[j].eng = e}}

Call(op, e, args, result) ==
    [op |-> op, eng |-> e, args |-> args,
     status |-> result.status, ret |-> result.ret]

(***************************************************************************)
(* Initial state: the module is imported, no engine exists.  The stream    *)
(* starts in a state the program did not choose.                           *)
(***************************************************************************)
Init ==
    /\ rng \in [seed : Seeds, pos : {0}]
    /\ engines = <<>>
    /\ pool = <<>>
    /\ last = [op |-> "none", eng |-> 0, args |-> <<>>, status |-> "ok", ret |-> <<>>]

(***************************************************************************)
(* Actions.                                                                *)
(***************************************************************************)
\* fhe = SimpleFHE(key_size, seed)
Construct(key_size, seed) ==
    /\ Len(engines) < MaxEngines
    /\ LET new == SimpleFHE(key_size, seed)
       IN  /\ new.rng.pos <= Len(Stream(new.rng.seed))
           /\ engines' = Append(engines, new.engine)
           /\ rng' = new.rng
           /\ last' = [op |-> "init", eng |-> Len(engines) + 1,
                       args |-> <<key_size, seed>>, status |-> "ok", ret |-> <<>>]
    /\ UNCHANGED pool

\* fhe.encrypt(message)
Encrypt(e, message) ==
    /\ last' = Call("encrypt", e, <<message>>, encrypt(engines[e], message))
    /\ UNCHANGED <<rng, engines, pool>>

\* fhe.decrypt(ciphertext)
Decrypt(e, ciphertext) ==
    /\ last' = Call("decrypt", e, <<ciphertext>>, decrypt(engines[e], ciphertext))
    /\ UNCHANGED <<rng, engines, pool>>

\* fhe.add(ciphertext1, ciphertext2)
Add(e, ciphertext1, ciphertext2) ==
    /\ last' = Call("add", e, <<ciphertext1, ciphertext2>>,
                    add(engines[e], ciphertext1, ciphertext2))
    /\ UNCHANGED <<rng, engines, pool>>

\* fhe.multiply(ciphertext1, ciphertext2)
Multiply(e, ciphertext1, ciphertext2) ==
    /\ last' = Call("multiply", e, <<ciphertext1, ciphertext2>>,
                    multiply(engines[e], ciphertext1, ciphertext2))
    /\ UNCHANGED <<rng, engines, pool>>

\* the caller binds the ciphertext just returned: c = fhe.encrypt(..) etc.
Keep ==
    /\ last.op \in {"encrypt", "add", "multiply"}
    /\ last.status = "ok"
    /\ Len(pool) < MaxPool
    /\ pool' = Append(pool, [eng |-> last.eng, ct |-> last.ret[1]])
    /\ UNCHANGED <<rng, engines, last>>

(***************************************************************************)
(* Spec: one engine, and a caller that works as demonstrate_fhe does: it   *)
(* keeps the ciphertexts the engine returns and passes them back to it.    *)
(***************************************************************************)
FirstConstruct == Len(engines) = 0 /\ \E k \in KeySizes, s \in Seeds : Construct(k, s)
DoEncrypt == \E e \in DOMAIN engines, m \in Messages : Encrypt(e, m)
DoDecrypt == \E e \in DOMAIN engines : \E c \in Held(e) : Decrypt(e, c)
DoAdd == \E e \in DOMAIN engines : \E c1, c2 \in Held(e) : Add(e, c1, c2)
DoMultiply == \E e \in DOMAIN engines : \E c1, c2 \in Held(e) : Multiply(e, c1, c2)

Next ==
    \/ FirstConstruct
    \/ DoEncrypt
    \/ DoDecrypt
    \/ DoAdd
    \/ DoMultiply
    \/ Keep

Spec == Init /\ [][Next]_vars

(***************************************************************************)
(* SpecInputs: one engine, and a caller that passes lists built by hand.   *)
(***************************************************************************)
DecryptInput == \E e \in DOMAIN engines : \E c \in ArbCts : Decrypt(e, c)
AddInput == \E e \in DOMAIN engines : \E c1, c2 \in ArbCts : Add(e, c1, c2)
MultiplyInput == \E e \in DOMAIN engines : \E c1, c2 \in ArbCts : Multiply(e, c1, c2)

NextInputs ==
    \/ FirstConstruct
    \/ DecryptInput
    \/ AddInput
    \/ MultiplyInput

SpecInputs == Init /\ [][NextInputs]_vars

(***************************************************************************)
(* SpecKeys: several engines share the process-wide stream; between two    *)
(* constructions the caller calls the operations of any engine, passing    *)
(* on the ciphertext the previous call returned.                           *)
(***************************************************************************)
Returned ==
    IF last.op \in {"encrypt", "add", "multiply"} /\ last.status = "ok"
    THEN {last.ret[1]} ELSE {}

DoConstruct == \E k \in KeySizes, s \in Seeds : Construct(k, s)
DecryptReturned == \E e \in DOMAIN engines : \E c \in Returned : Decrypt(e, c)
AddReturned == \E e \in DOMAIN engines : \E c \in Returned : Add(e, c, c)
MultiplyReturned == \E e \in DOMAIN engines : \E c \in Returned : Multiply(e, c, c)

NextKeys ==
    \/ DoConstruct
    \/ DoEncrypt
    \/ DecryptReturned
    \/ AddReturned
    \/ MultiplyReturned

SpecKeys == Init /\ [][NextKeys]_vars

(***************************************************************************)
(* Properties.                                                             *)
(***************************************************************************)
Bits == {0, 1}
IsCall(op) == last.op = op
LastEngine == engines[last.eng]
Enc(E, b) == encrypt(E, b).ret[1]

\* C1 (round trip): whenever decrypt is called on the ciphertext that
\* encrypt returns for a bit b, on any engine, it returns b.
RoundTrip ==
    \A b \in Bits :
        (IsCall("decrypt") /\ last.args[1] = Enc(LastEngine, b))
            => last.ret = <<b>>

\* C2 (addition law): whenever decrypt is called on add(encrypt(b1),
\* encrypt(b2)), on any engine, it returns (b1 + b2) mod 2.
AdditionLaw ==
    \A b1, b2 \in Bits :
        (/\ IsCall("decrypt")
         /\ last.args[1] = add(LastEngine, Enc(LastEngine, b1), Enc(LastEngine, b2)).ret[1])
            => last.ret = <<(b1 + b2) % 2>>

\* C3 (multiplication law): whenever decrypt is called on
\* multiply(encrypt(b1), encrypt(b2)), on any engine, it returns b1 * b2.
MultiplicationLaw ==
    \A b1, b2 \in Bits :
        (/\ IsCall("decrypt")
         /\ last.args[1] = multiply(LastEngine, Enc(LastEngine, b1), Enc(LastEngine, b2)).ret[1])
            => last.ret = <<b1 * b2>>

\* C4 (decrypt length check): decrypt called with a ciphertext whose length
\* is not key_size + 1 fails with the length error (the ValueError that add
\* and multiply raise) and returns nothing.
DecryptRejectsWrongLength ==
    (IsCall("decrypt") /\ Len(last.args[1]) # LastEngine.key_size + 1)
        => (last.status = "ValueError" /\ last.ret = <<>>)

\* C5 as stated: add and multiply fail with the length error, returning
\* nothing, whenever the two lengths differ, and never fail when they are
\* equal.
BinaryOpsFailOnlyOnMismatch ==
    (IsCall("add") \/ IsCall("multiply")) =>
        /\ Len(last.args[1]) # Len(last.args[2])
              => (last.status = "ValueError" /\ last.ret = <<>>)
        /\ Len(last.args[1]) = Len(last.args[2])
              => last.status = "ok"

\* C5 as amended: add and multiply fail with the length error, returning
\* nothing, whenever the two lengths differ; they never fail when the
\* lengths are equal and not zero; called with two empty lists they fail
\* with an IndexError and return nothing.
BinaryOpsLengthCheck ==
    (IsCall("add") \/ IsCall("multiply")) =>
        /\ Len(last.args[1]) # Len(last.args[2])
              => (last.status = "ValueError" /\ last.ret = <<>>)
        /\ (Len(last.args[1]) = Len(last.args[2]) /\ Len(last.args[1]) > 0)
              => (last.status = "ok" /\ Len(last.ret) = 1)
        /\ (Len(last.args[1]) = 0 /\ Len(last.args[2]) = 0)
              => (last.status = "IndexError" /\ last.ret = <<>>)

\* add was called with lists of lengths key_size + 1 and key_size + 2
BinaryOpsLengthCheckWitness ==
    /\ IsCall("add")
    /\ Len(last.args[1]) = LastEngine.key_size + 1
    /\ Len(last.args[2]) = LastEngine.key_size + 2
    /\ last.status = "ValueError"

\* C6 (encrypt's input check): encrypt fails with the ValueError exactly
\* when the message is not 0 or 1, then returns no ciphertext, and a call
\* of encrypt leaves the engines, the random stream and the ciphertexts
\* held as they were.
EncryptOutcome ==
    IsCall("encrypt") =>
        /\ (last.args[1] \notin Bits) <=> (last.status = "ValueError")
        /\ (last.args[1] \in Bits) <=> (last.status = "ok")
        /\ last.status = "ValueError" => last.ret = <<>>
        /\ last.status = "ok" => Len(last.ret) = 1

\* a step that is a call of encrypt (a new call is recorded in last)
EncryptCalled ==
    /\ last'.op = "encrypt"
    /\ \/ last.op # "encrypt"
       \/ last'.eng # last.eng
       \/ last'.args # last.args

EncryptInputCheck ==
    /\ []EncryptOutcome
    /\ [][EncryptCalled => (engines' = engines /\ rng' = rng /\ pool' = pool)]_vars

\* encrypt(2) was called on a constructed engine and failed
EncryptInputCheckWitness ==
    /\ IsCall("encrypt")
    /\ last.args[1] = 2
    /\ last.status = "ValueError"
    /\ Len(LastEngine.public_key) = LastEngine.key_size

\* C7 (length invariant): encrypt returns key_size + 1 entries; add and
\* multiply of two ciphertexts of key_size + 1 entries return key_size + 1
\* entries; so does every ciphertext obtained by encrypt, add and multiply.
LengthInvariant ==
    /\ \A i \in DOMAIN pool :
           Len(pool[i].ct) = engines[pool[i].eng].key_size + 1
    /\ (IsCall("encrypt") /\ last.status = "ok")
           => Len(last.ret[1]) = LastEngine.key_size + 1
    /\ ((IsCall("add") \/ IsCall("multiply"))
          /\ Len(last.args[1]) = LastEngine.key_size + 1
          /\ Len(last.args[2]) = LastEngine.key_size + 1)
           => (last.status = "ok" /\ Len(last.ret[1]) = LastEngine.key_size + 1)

\* multiply was called on the result of an add and an encrypted bit
LengthInvariantWitness ==
    /\ IsCall("multiply")
    /\ last.status = "ok"
    /\ \E b1, b2 \in Bits :
          last.args[1] = add(LastEngine, Enc(LastEngine, b1), Enc(LastEngine, b2)).ret[1]
    /\ \E b \in Bits : last.args[2] = Enc(LastEngine, b)
    /\ Len(pool) = 3

InRange(c, q) == \A i \in DOMAIN c : c[i] \in 0..(q - 1)

\* C8 (range invariant): every entry of every ciphertext obtained by
\* encrypt, add and multiply lies in 0..q-1, and q is 8.
RangeInvariant ==
    /\ \A i \in DOMAIN engines : engines[i].q = 8
    /\ \A i \in DOMAIN pool : InRange(pool[i].ct, engines[pool[i].eng].q)
    /\ ((IsCall("encrypt") \/ IsCall("add") \/ IsCall("multiply")) /\ last.status = "ok")
           => InRange(last.ret[1], LastEngine.q)

\* add was called on two ciphertexts whose message entries sum to q or more
RangeInvariantWitness ==
    /\ IsCall("add")
    /\ last.status = "ok"
    /\ Back(last.args[1]) + Back(last.args[2]) >= LastEngine.q
    /\ \E i \in 1..LastEngine.key_size : last.args[1][i] + last.args[2][i] > 1

SameParameters(i, j) ==
    /\ engines[i].seed = engines[j].seed
    /\ engines[i].key_size = engines[j].key_size

\* C9 (determinism): two engines constructed with the same seed and
\* key_size have the same secret key and the same public key and encrypt a
\* bit to the same ciphertext, whatever was constructed or called before
\* or between the two constructions.
Determinism ==
    \A i, j \in DOMAIN engines :
        SameParameters(i, j) =>
            /\ engines[i].secret_key = engines[j].secret_key
            /\ engines[i].public_key = engines[j].public_key
            /\ \A b \in Bits : encrypt(engines[i], b) = encrypt(engines[j], b)

\* two engines with the same parameters, an engine with another seed
\* constructed between them, and a call made after the last construction
DeterminismWitness ==
    /\ Len(engines) >= 3
    /\ SameParameters(1, 3)
    /\ engines[2].seed # engines[1].seed
    /\ <<engines[2].secret_key, engines[2].public_key>>
          # <<engines[1].secret_key, engines[1].public_key>>
    /\ IsCall("decrypt")

\* C10 (decrypt returns a bit): for every non-empty list of integers, of
\* any length and with any entries, decrypt returns 0 or 1.
DecryptReturnsBit ==
    (IsCall("decrypt") /\ Len(last.args[1]) > 0)
        => (last.status = "ok" /\ Len(last.ret) = 1 /\ last.ret[1] \in Bits)

\* decrypt was called on a list of the wrong length with entries outside
\* 0..q-1, the message entry minus the dot product being negative
DecryptReturnsBitWitness ==
    /\ IsCall("decrypt")
    /\ Len(last.args[1]) > 0
    /\ Len(last.args[1]) # LastEngine.key_size + 1
    /\ ~InRange(last.args[1], LastEngine.q)
    /\ Back(last.args[1]) - Dot(Front(last.args[1]), LastEngine.secret_key) < 0

====
